---- MODULE Spec2Model ----
(***************************************************************************)
(* Model of the Socratease connector: src/connector.py (the four entity   *)
(* syncs and update) and src/socratease_api.py (api_request, the          *)
(* paginated fetcher and the endpoint wrappers).                          *)
(*                                                                         *)
(* Timestamps are ISO strings that the code compares with Python's string *)
(* order; they are modelled as the naturals 1..MaxTs under that order,    *)
(* with Epoch (0) for "1970-01-01T00:00:00Z".  NoneVal stands for Python  *)
(* None / an absent key.  op.upsert and op.checkpoint build operation     *)
(* objects; an operation reaches the host only when update yields it.     *)
(* UpsertOpObj stands for such an operation object held where the code    *)
(* expects a timestamp.                                                    *)
(***************************************************************************)
EXTENDS Integers, Sequences, FiniteSets, TLC

\* ---------------------------------------------------------------- bounds
MaxTs == 2          \* timestamps are 1..MaxTs
MaxUnits == 2       \* units the upstream holds
MaxLimit == 3       \* config["limit"] is 1..MaxLimit
MaxAttempts == 1    \* attempts the upstream holds for one unit and filter
MaxItems == 2       \* items the upstream holds when the paging loop is run alone
MaxPages == 3       \* requests one paging loop may issue in the model
MaxRuns == 2        \* invocations of update by the host

\* ------------------------------------------------------ program constants
NoneVal == -1
Epoch == 0
UpsertOpObj == -2
DefaultLimit == 100

Ts == 1..MaxTs
TsOrNone == Ts \cup {NoneVal}

\* Python truthiness of a value that is None, a non-empty string or an object
Truthy(v) == v /= NoneVal

\* Python `a or b`
PyOr(a, b) == IF Truthy(a) THEN a ELSE b

\* a timestamp string (as opposed to None or an operation object)
IsTs(v) == v >= Epoch

Min(a, b) == IF a < b THEN a ELSE b

\* seq[offset : offset + limit]
Slice(seq, offset, limit) == SubSeq(seq, offset + 1, Min(offset + limit, Len(seq)))

\* ------------------------------------------------------------ operations
Upsert(table, data) == [type |-> "upsert", table |-> table, data |-> data]
Checkpoint(st) == [type |-> "checkpoint", state |-> st]

\* isinstance(result, list) for a value yielded by sync_unit_attempts: the
\* generator yields only what op.upsert returned, an operation object
IsPyList(result) == FALSE

\* -------------------------------------------------------------- requests
Req(ep, unit_id, limit, offset, updated_after, user_id, attempt_num) ==
    [ep |-> ep, unit_id |-> unit_id, limit |-> limit, offset |-> offset,
     updated_after |-> updated_after, user_id |-> user_id, attempt_num |-> attempt_num]

\* get_units builds type/limit/updated_after; the offset argument is not sent
GetUnitsReq(limit, offset, updated_after) ==
    Req("units", NoneVal, limit, NoneVal,
        IF Truthy(updated_after) THEN updated_after ELSE NoneVal, NoneVal, NoneVal)

GetUnitDetailsReq(unit_id) ==
    Req("unit_detail", unit_id, NoneVal, NoneVal, NoneVal, NoneVal, NoneVal)

\* params of get_unit_attempts before paging adds the offset
GetUnitAttemptsParams(unit_id, limit, updated_after) ==
    Req("user_progress", unit_id, limit, NoneVal,
        IF Truthy(updated_after) THEN updated_after ELSE NoneVal, NoneVal, NoneVal)

GetQuestionAttemptsReq(user_id, unit_id, attempt_num) ==
    Req("user_responses", unit_id, NoneVal, NoneVal, NoneVal, user_id, attempt_num)

\* --------------------------------------------------------- upstream data
UnitRows == {[unit_id |-> i, created_at |-> c] : i \in 1..MaxUnits, c \in Ts}

\* the upstream's quizzes: unit i of N has unit_id i
Catalogs == UNION {{q \in [1..n -> UnitRows] : \A i \in 1..n : q[i].unit_id = i} :
                   n \in 0..MaxUnits}

\* an attempt is unfinished and carries no stamp, or carries both stamps
AttemptRows == {a \in [user_id : {1}, attempt_num : 1..(MaxAttempts + MaxItems),
                       finished_at : {NoneVal, MaxTs}, updated_at : {NoneVal, 1}] :
                  (a.finished_at = NoneVal) = (a.updated_at = NoneVal)}

\* attempts of one unit as the upstream lists them: attempt k carries attempt_num k
AttemptListsUpTo(max) ==
    UNION {{a \in [1..n -> AttemptRows] : \A i \in 1..n : a[i].attempt_num = i} : n \in 0..max}
AttemptLists == AttemptListsUpTo(MaxAttempts)

\* data.questions of a unit's detail: the first quiz has no question yet, every
\* other quiz has one
QuestionsOf(unit_id) ==
    IF unit_id = 1 THEN <<>> ELSE <<[question_id |-> unit_id, updated_at |-> 1]>>

ResponseRows == [user_response_id : 1..2]
ResponseLists == {<<>>} \cup {<<r>> : r \in ResponseRows}
                    \cup {<<r1, r2>> : r1 \in ResponseRows, r2 \in ResponseRows}
\* data.responses: the response lists in key order, for at most two questions
ResponseMaps == {<<>>} \cup {<<l>> : l \in ResponseLists}
                   \cup {<<l1, l2>> : l1 \in ResponseLists, l2 \in ResponseLists}

\* the shapes a 200 body of the upstream may have, fixed for a behaviour:
\*   none             every body has the documented shape
\*   units_missing    the units listing lacks the "quiz" key
\*   detail_object    data.questions of a unit's detail is one question object
\*   progress_missing the user-progress body lacks the "data" key
\*   progress_object  "data" of user-progress is one attempt object, not a list
Malformations ==
    {"none", "units_missing", "detail_object", "progress_missing", "progress_object"}

VARIABLES
    quizzes,      \* upstream: the quiz units, in listing order
    srv_inclusive,\* upstream: updated_after keeps the units stamped at that very time
    srv_malformed,\* upstream: which of its 200 bodies depart from the documented shape
    srv_items,    \* upstream: the data answering the request in progress
    limit_cfg,    \* config["limit"]
    persisted,    \* host: the last checkpointed state ({} before the first)
    state,        \* update's argument `state`
    new_state,    \* update's local new_state
    pc,           \* position of the run
    all_units,    \* sync_units: all_units
    offset,       \* sync_units: offset
    units,        \* update: units (the re-listing)
    idx,          \* update: position of `unit` in units
    pg_params,    \* paginated_api_request: params (with offset)
    all_results,  \* paginated_api_request: all_results
    reqs,         \* history: requests issued in this run, with their status
    ops,          \* history: operations yielded to the host in this run
    fetched,      \* history: attempts fetched per unit in this run
    qa_calls,     \* history: calls of sync_unit_question_attempts in this run
    qa_pending,   \* update: attempts the inner loop has still to pass on
    prior,        \* history: the state the host passed to this run
    runs          \* number of runs started

vars == <<quizzes, srv_inclusive, srv_malformed, srv_items, limit_cfg, persisted, state, new_state, pc, all_units,
          offset, units, idx, pg_params, all_results, reqs, ops, fetched, qa_calls, qa_pending, prior, runs>>

UnitIds == 1..MaxUnits
NoMap == [u \in UnitIds |-> NoneVal]
NoFetch == [u \in UnitIds |-> <<>>]

\* the host's state before any checkpoint: {}
EmptyState == [units_last_ts |-> NoneVal, has_attempts |-> FALSE, attempts_last_ts |-> NoMap]
NoReq == Req("none", NoneVal, NoneVal, NoneVal, NoneVal, NoneVal, NoneVal)

\* the upstream's answer to a units listing request
\* (type=quiz, limit, updated_after; the request carries no offset).  Whether
\* updated_after keeps a unit stamped exactly at that time is the upstream's
\* choice, fixed for a behaviour in srv_inclusive.
ServeUnits(req) ==
    LET matching == SelectSeq(quizzes, LAMBDA u :
                        \/ req.updated_after = NoneVal
                        \/ u.created_at > req.updated_after
                        \/ srv_inclusive /\ u.created_at = req.updated_after)
        off == IF req.offset = NoneVal THEN 0 ELSE req.offset
    IN IF srv_malformed = "units_missing" THEN <<>> ELSE Slice(matching, off, req.limit)

\* the upstream's answer to a paged user-progress request
ServeItems(req) ==
    Slice(srv_items, IF req.offset = NoneVal THEN 0 ELSE req.offset, req.limit)

\* the list paginated_api_request makes of a 200 body: [] when a key of
\* data_path is absent, [object] for a non-empty object that is not a list
PageData(req) ==
    IF srv_malformed = "progress_missing" THEN <<>>
    ELSE IF srv_malformed = "progress_object"
    THEN Slice(srv_items, IF req.offset = NoneVal THEN 0 ELSE req.offset, 1)
    ELSE ServeItems(req)

Init ==
    /\ quizzes \in Catalogs
    /\ srv_inclusive \in BOOLEAN
    /\ srv_malformed \in Malformations
    /\ limit_cfg \in 1..MaxLimit
    /\ srv_items = <<>>
    /\ persisted = EmptyState
    /\ state = EmptyState
    /\ new_state = [units_last_ts |-> NoneVal, attempts_last_ts |-> NoMap]
    /\ pc = "idle"
    /\ all_units = <<>>
    /\ offset = 0
    /\ units = <<>>
    /\ idx = 0
    /\ pg_params = NoReq
    /\ all_results = <<>>
    /\ reqs = <<>>
    /\ ops = <<>>
    /\ fetched = NoFetch
    /\ qa_calls = <<>>
    /\ qa_pending = <<>>
    /\ prior = EmptyState
    /\ runs = 0

\* api_request: the request is issued once; a non-200 status raises RuntimeError
ApiRequest(req, ok) == reqs' = Append(reqs, [req |-> req, ok |-> ok])

\* mutant: the failure is swallowed and the step tried again
Abort_retry == pc' = pc

\* an exception leaves update: the run is over, nothing more is yielded
Abort == pc' = "aborted"

\* what the upstream holds by the next run: the same quizzes, or one more
GrownCatalogs ==
    {quizzes} \cup {Append(quizzes, row) : row \in {r \in UnitRows :
                        /\ Len(quizzes) < MaxUnits
                        /\ r.unit_id = Len(quizzes) + 1}}

\* the host invokes update(config, state) with the state it last persisted
StartRun ==
    /\ pc \in {"idle", "done", "aborted"}
    /\ runs < MaxRuns
    /\ quizzes' \in GrownCatalogs
    /\ runs' = runs + 1
    /\ state' = persisted
    /\ new_state' = [units_last_ts |-> IF persisted.units_last_ts = NoneVal
                                       THEN Epoch ELSE persisted.units_last_ts,
                     attempts_last_ts |-> persisted.attempts_last_ts]
    /\ pc' = "sync_units"
    /\ all_units' = <<>>
    /\ offset' = 0
    /\ units' = <<>>
    /\ idx' = 0
    /\ pg_params' = NoReq
    /\ all_results' = <<>>
    /\ srv_items' = <<>>
    /\ reqs' = <<>>
    /\ ops' = <<>>
    /\ fetched' = NoFetch
    /\ qa_calls' = <<>>
    /\ qa_pending' = <<>>
    /\ prior' = persisted
    /\ UNCHANGED <<srv_inclusive, srv_malformed, limit_cfg, persisted>>

\* ------------------------------------------------------------ sync_units
\* mutant: new_last_ts starts at the epoch instead of last_sync
MaxCreatedAt_fromEpoch(seq, acc) ==
    LET stamps == {seq[i].created_at : i \in 1..Len(seq)} \cap Ts
    IN IF stamps = {} THEN Epoch ELSE CHOOSE m \in stamps : \A x \in stamps : x <= m

\* mutant: only the first unit of the batch is looked at
MaxCreatedAt_first(seq, acc) ==
    IF seq /= <<>> /\ Truthy(Head(seq).created_at) /\ Head(seq).created_at > acc
    THEN Head(seq).created_at ELSE acc

RECURSIVE MaxCreatedAt(_, _)
\* the loop over all_units that raises new_last_ts to the largest created_at
MaxCreatedAt(seq, acc) ==
    IF seq = <<>> THEN acc
    ELSE LET ts == Head(seq).created_at
         IN MaxCreatedAt(Tail(seq), IF Truthy(ts) /\ ts > acc THEN ts ELSE acc)

UnitsLastSync == PyOr(state.units_last_ts, Epoch)

\* one iteration of sync_units' while loop
SyncUnitsRequest ==
    /\ pc = "sync_units"
    /\ offset < MaxPages * limit_cfg
    /\ \E ok \in BOOLEAN :
         LET req == GetUnitsReq(limit_cfg, offset, UnitsLastSync)
             page == ServeUnits(req)
         IN /\ ApiRequest(req, ok)
            /\ IF ~ok THEN Abort /\ UNCHANGED <<all_units, offset>>
               ELSE IF page = <<>> THEN pc' = "sync_units_end" /\ UNCHANGED <<all_units, offset>>
               ELSE /\ all_units' = all_units \o page
                    /\ IF Len(page) < limit_cfg
                       THEN pc' = "sync_units_end" /\ UNCHANGED offset
                       ELSE pc' = pc /\ offset' = offset + limit_cfg
    /\ UNCHANGED <<quizzes, srv_inclusive, srv_malformed, srv_items, limit_cfg, persisted, state, new_state, units, idx,
                   pg_params, all_results, ops, fetched, qa_calls, qa_pending, prior, runs>>

\* the rest of sync_units, and update taking its return value
SyncUnitsFinish ==
    /\ pc = "sync_units_end"
    /\ ops' = IF all_units /= <<>> THEN Append(ops, Upsert("units", all_units)) ELSE ops
    /\ new_state' = [new_state EXCEPT !.units_last_ts = MaxCreatedAt(all_units, UnitsLastSync)]
    /\ pc' = "list_units"
    /\ UNCHANGED <<quizzes, srv_inclusive, srv_malformed, srv_items, limit_cfg, persisted, state, all_units, offset, units,
                   idx, pg_params, all_results, reqs, fetched, qa_calls, qa_pending, prior, runs>>

\* ---------------------------------------------------------------- update
\* where update goes after unit number i of the listing us
NextUnit(us, i) == IF i < Len(us) THEN "unit_questions" ELSE "checkpoint"

\* update re-lists the units: get_units(config=config)
ListUnits ==
    /\ pc = "list_units"
    /\ \E ok \in BOOLEAN :
         LET req == GetUnitsReq(DefaultLimit, 0, NoneVal)
         IN /\ ApiRequest(req, ok)
            /\ IF ~ok THEN Abort /\ UNCHANGED <<units, idx>>
               ELSE /\ units' = ServeUnits(req)
                    /\ idx' = 1
                    /\ pc' = NextUnit(units', 0)
    /\ UNCHANGED <<quizzes, srv_inclusive, srv_malformed, srv_items, limit_cfg, persisted, state, new_state, all_units,
                   offset, pg_params, all_results, ops, fetched, qa_calls, qa_pending,
                   prior, runs>>

\* --------------------------------------------------- sync_unit_questions
StampUnitId(questions, unit_id) ==
    [i \in 1..Len(questions) |->
        [question_id |-> questions[i].question_id, updated_at |-> questions[i].updated_at,
         unit_id |-> unit_id]]

\* `question["unit_id"] = unit_id` on a key of a question object: TypeError
RaisesOnQuestions == srv_malformed = "detail_object"

SyncUnitQuestions ==
    /\ pc = "unit_questions"
    /\ \E ok \in BOOLEAN :
         LET unit_id == units[idx].unit_id
             req == GetUnitDetailsReq(unit_id)
             questions == QuestionsOf(unit_id)
         IN /\ ApiRequest(req, ok)
            /\ IF ~ok \/ RaisesOnQuestions THEN Abort /\ UNCHANGED ops
               ELSE /\ ops' = IF questions /= <<>>
                              THEN Append(ops, Upsert("unit_questions",
                                                      StampUnitId(questions, unit_id)))
                              ELSE ops
                    /\ pc' = "unit_attempts"
    /\ UNCHANGED <<quizzes, srv_inclusive, srv_malformed, srv_items, limit_cfg, persisted, state, new_state, all_units,
                   offset, units, idx, pg_params, all_results, fetched, qa_calls,
                   qa_pending, prior, runs>>

\* ---------------------------------------------------- sync_unit_attempts
\* state.get("attempts_last_ts", {}).get(unit_id) or the epoch
AttemptsLastSync(unit_id) ==
    PyOr(IF state.has_attempts THEN state.attempts_last_ts[unit_id] ELSE NoneVal, Epoch)

\* the head of paginated_api_request: copy params, default the limit, offset 0
PgInit(params, limit) ==
    [params EXCEPT !.limit = IF @ = NoneVal THEN limit ELSE @, !.offset = 0]

\* update's for loop first advances the generator: sync_unit_attempts runs up
\* to its call of get_unit_attempts; the upstream fixes what matches the filter
SyncUnitAttemptsStart ==
    /\ pc = "unit_attempts"
    /\ srv_items' \in AttemptLists
    /\ pg_params' = PgInit(GetUnitAttemptsParams(units[idx].unit_id, limit_cfg,
                                                 AttemptsLastSync(units[idx].unit_id)),
                           limit_cfg)
    /\ all_results' = <<>>
    /\ pc' = "paging"
    /\ UNCHANGED <<quizzes, srv_inclusive, srv_malformed, limit_cfg, persisted, state, new_state, all_units, offset, units,
                   idx, reqs, ops, fetched, qa_calls, qa_pending, prior, runs>>

\* mutant: the offset advances by one item
NextOffset_one(params) == params.offset + 1

\* offset += params["limit"]
NextOffset(params) == params.offset + params.limit

\* one iteration of paginated_api_request's while loop
PaginatedRequest ==
    /\ pc = "paging"
    /\ Len(all_results) <= MaxAttempts + MaxItems
    /\ \E ok \in BOOLEAN :
         LET data == PageData(pg_params)
         IN /\ ApiRequest(pg_params, ok)
            /\ IF ~ok THEN Abort /\ UNCHANGED <<all_results, pg_params>>
               ELSE IF data = <<>> THEN pc' = "pg_done" /\ UNCHANGED <<all_results, pg_params>>
               ELSE /\ all_results' = all_results \o data
                    /\ IF Len(data) < pg_params.limit
                       THEN pc' = "pg_done" /\ UNCHANGED pg_params
                       ELSE /\ pc' = pc
                            /\ pg_params' = [pg_params EXCEPT !.offset = NextOffset(pg_params)]
    /\ UNCHANGED <<quizzes, srv_inclusive, srv_malformed, srv_items, limit_cfg, persisted, state, new_state, all_units,
                   offset, units, idx, ops, fetched, qa_calls, qa_pending, prior, runs>>

AttemptTs(attempt) == PyOr(attempt.finished_at, attempt.updated_at)

RECURSIVE MaxAttemptTs(_, _)
\* the loop over attempts that raises new_last_ts
MaxAttemptTs(seq, acc) ==
    IF seq = <<>> THEN acc
    ELSE LET ts == AttemptTs(Head(seq))
         IN MaxAttemptTs(Tail(seq), IF Truthy(ts) /\ ts > acc THEN ts ELSE acc)

\* `ts > new_last_ts` compares a string with a non-string: TypeError
RaisesTypeError(attempts, last_sync) ==
    /\ ~IsTs(last_sync)
    /\ \E i \in 1..Len(attempts) : Truthy(AttemptTs(attempts[i]))

\* mutant: the upsert is yielded for an empty fetch too
YieldedBySyncUnitAttempts_always(attempts, new_last_ts) ==
    <<Upsert("unit_attempts", attempts)>>

\* what iterating the generator sync_unit_attempts hands to update's for loop:
\* the values it yields; its return value (attempts, new_last_ts) is not one
YieldedBySyncUnitAttempts(attempts, new_last_ts) ==
    IF attempts /= <<>> THEN <<Upsert("unit_attempts", attempts)>> ELSE <<>>

\* new_state["attempts_last_ts"][unit_id] = result: the slot holds the yielded
\* operation object itself
SlotValue(result) == UpsertOpObj

\* update's loop over the generator: the rest of sync_unit_attempts up to its
\* yield, the loop body for the yielded value, then the generator's return
UpdateAttemptsLoop ==
    /\ pc = "pg_done"
    /\ LET unit_id == units[idx].unit_id
           attempts == all_results
           last_sync == AttemptsLastSync(unit_id)
           yielded == YieldedBySyncUnitAttempts(attempts, MaxAttemptTs(attempts, last_sync))
       IN /\ fetched' = [fetched EXCEPT ![unit_id] = attempts]
          /\ IF RaisesTypeError(attempts, last_sync)
             THEN Abort /\ UNCHANGED <<state, new_state, idx, qa_pending>>
             ELSE IF yielded = <<>>
             THEN /\ pc' = NextUnit(units, idx)
                  /\ idx' = idx + 1
                  /\ UNCHANGED <<state, new_state, qa_pending>>
             ELSE IF IsPyList(yielded[1])
             THEN /\ qa_pending' = yielded[1]
                  /\ pc' = "question_attempts"
                  /\ UNCHANGED <<state, new_state, idx>>
             ELSE \* new_state's map is state's map when state has one
                  /\ new_state' = [new_state EXCEPT
                                     !.attempts_last_ts[unit_id] = SlotValue(yielded[1])]
                  /\ state' = IF state.has_attempts
                              THEN [state EXCEPT
                                      !.attempts_last_ts[unit_id] = SlotValue(yielded[1])]
                              ELSE state
                  /\ pc' = NextUnit(units, idx)
                  /\ idx' = idx + 1
                  /\ UNCHANGED qa_pending
    /\ UNCHANGED <<quizzes, srv_inclusive, srv_malformed, srv_items, limit_cfg, persisted, all_units, offset, units,
                   pg_params, all_results, reqs, ops, qa_calls, prior, runs>>

\* -------------------------------------------- sync_unit_question_attempts
\* mutant: only the user id is looked at
MissingParams_userOnly(user_id, attempt_num, unit_id) == ~Truthy(user_id)

\* not (soc_user_id and attempt_num and unit_id); the number 0 is falsy too
MissingParams(user_id, attempt_num, unit_id) ==
    ~(Truthy(user_id) /\ Truthy(attempt_num) /\ attempt_num /= 0 /\ Truthy(unit_id))

RECURSIVE LastResponses_first(_)
\* mutant: responses[0] is kept instead of responses[-1]
LastResponses_first(responses_obj) ==
    IF responses_obj = <<>> THEN <<>>
    ELSE LET responses == Head(responses_obj)
         IN (IF responses /= <<>> THEN <<responses[1]>> ELSE <<>>)
            \o LastResponses_first(Tail(responses_obj))

RECURSIVE LastResponses(_)
\* the last element of every non-empty response list, in key order
LastResponses(responses_obj) ==
    IF responses_obj = <<>> THEN <<>>
    ELSE LET responses == Head(responses_obj)
         IN (IF responses /= <<>> THEN <<responses[Len(responses)]>> ELSE <<>>)
            \o LastResponses(Tail(responses_obj))

\* update's inner loop over a yielded list: sync_unit_question_attempts for its
\* next element, or, the list done, the generator's return and the next unit
SyncUnitQuestionAttempts ==
    /\ pc = "question_attempts"
    /\ IF qa_pending = <<>>
       THEN /\ pc' = NextUnit(units, idx)
            /\ idx' = idx + 1
            /\ UNCHANGED <<qa_pending, qa_calls, reqs, ops, srv_items>>
       ELSE LET attempt == Head(qa_pending)
                unit_id == units[idx].unit_id
            IN /\ qa_pending' = Tail(qa_pending)
               /\ qa_calls' = Append(qa_calls, [unit_id |-> unit_id, attempt |-> attempt])
               /\ UNCHANGED idx
               /\ IF MissingParams(attempt.user_id, attempt.attempt_num, unit_id)
                  THEN UNCHANGED <<pc, reqs, ops, srv_items>>
                  ELSE \E ok \in BOOLEAN, responses_obj \in ResponseMaps :
                         /\ srv_items' = responses_obj
                         /\ ApiRequest(GetQuestionAttemptsReq(attempt.user_id, unit_id,
                                                              attempt.attempt_num), ok)
                         /\ IF ~ok THEN Abort /\ UNCHANGED ops
                            ELSE /\ pc' = pc
                                 /\ ops' = IF LastResponses(responses_obj) /= <<>>
                                           THEN Append(ops, Upsert("unit_question_attempts",
                                                            LastResponses(responses_obj)))
                                           ELSE ops
    /\ UNCHANGED <<quizzes, srv_inclusive, srv_malformed, limit_cfg, persisted, state, new_state,
                   all_units, offset, units, pg_params, all_results, fetched, prior, runs>>

\* yield op.checkpoint(state=new_state); the host persists the state it is handed
EmitCheckpoint ==
    /\ pc = "checkpoint"
    /\ ops' = Append(ops, Checkpoint(new_state))
    /\ persisted' = [units_last_ts |-> new_state.units_last_ts, has_attempts |-> TRUE,
                     attempts_last_ts |-> new_state.attempts_last_ts]
    /\ pc' = "done"
    /\ UNCHANGED <<quizzes, srv_inclusive, srv_malformed, srv_items, limit_cfg, state, new_state, all_units, offset, units,
                   idx, pg_params, all_results, reqs, fetched, qa_calls, qa_pending, prior,
                   runs>>

Next ==
    \/ StartRun
    \/ SyncUnitsRequest
    \/ SyncUnitsFinish
    \/ ListUnits
    \/ SyncUnitQuestions
    \/ SyncUnitAttemptsStart
    \/ PaginatedRequest
    \/ UpdateAttemptsLoop
    \/ EmitCheckpoint

Spec == Init /\ [][Next]_vars

\* ------------------------------------- paginated_api_request on its own
\* a call of paginated_api_request against an upstream holding srv_items
InitPage ==
    /\ quizzes = <<>>
    /\ srv_inclusive = TRUE
    /\ srv_malformed = "none"
    /\ limit_cfg \in 1..MaxLimit
    /\ srv_items \in AttemptListsUpTo(MaxItems)
    /\ \E plimit \in {NoneVal, limit_cfg}, after \in {NoneVal, Epoch} :
         pg_params = PgInit(GetUnitAttemptsParams(1, plimit, after), limit_cfg)
    /\ persisted = EmptyState
    /\ state = EmptyState
    /\ new_state = [units_last_ts |-> NoneVal, attempts_last_ts |-> NoMap]
    /\ pc = "paging"
    /\ all_units = <<>>
    /\ offset = 0
    /\ units = <<>>
    /\ idx = 0
    /\ all_results = <<>>
    /\ reqs = <<>>
    /\ ops = <<>>
    /\ fetched = NoFetch
    /\ qa_calls = <<>>
    /\ qa_pending = <<>>
    /\ prior = EmptyState
    /\ runs = 0

NextPage == PaginatedRequest

SpecPage == InitPage /\ [][NextPage]_vars

\* ------------------------------ sync_unit_question_attempts on its own
\* attempts as update may hand them over: any of the identifying fields absent
QaAttempts == [user_id : {NoneVal, 1}, attempt_num : {NoneVal, 0, 1},
               finished_at : {NoneVal}, updated_at : {NoneVal}]

\* update's inner loop over a list of attempts of one unit
InitQA ==
    /\ quizzes = <<>>
    /\ srv_inclusive = TRUE
    /\ srv_malformed = "none"
    /\ limit_cfg = 1
    /\ srv_items = <<>>
    /\ persisted = EmptyState
    /\ state = EmptyState
    /\ new_state = [units_last_ts |-> NoneVal, attempts_last_ts |-> NoMap]
    /\ pc = "question_attempts"
    /\ all_units = <<>>
    /\ offset = 0
    /\ \E unit_id \in {NoneVal, 1} : units = <<[unit_id |-> unit_id, created_at |-> 1]>>
    /\ idx = 1
    /\ pg_params = NoReq
    /\ all_results = <<>>
    /\ reqs = <<>>
    /\ ops = <<>>
    /\ fetched = NoFetch
    /\ qa_calls = <<>>
    /\ qa_pending \in {<<>>} \cup {<<a>> : a \in QaAttempts}
                        \cup {<<a, b>> : a \in QaAttempts, b \in QaAttempts}
    /\ prior = EmptyState
    /\ runs = 0

NextQA == SyncUnitQuestionAttempts

SpecQA == InitQA /\ [][NextQA]_vars

\* ------------------------------------------- update's listing on its own
\* the upstream holds up to one quiz more than a listing request asks for
InitList ==
    /\ quizzes \in {[i \in 1..n |-> [unit_id |-> i, created_at |-> 1]] :
                      n \in 0..(DefaultLimit + 1)}
    /\ srv_inclusive = TRUE
    /\ srv_malformed = "none"
    /\ limit_cfg = DefaultLimit
    /\ srv_items = <<>>
    /\ persisted = EmptyState
    /\ state = EmptyState
    /\ new_state = [units_last_ts |-> Epoch, attempts_last_ts |-> NoMap]
    /\ pc = "list_units"
    /\ all_units = <<>>
    /\ offset = 0
    /\ units = <<>>
    /\ idx = 0
    /\ pg_params = NoReq
    /\ all_results = <<>>
    /\ reqs = <<>>
    /\ ops = <<>>
    /\ fetched = NoFetch
    /\ qa_calls = <<>>
    /\ qa_pending = <<>>
    /\ prior = EmptyState
    /\ runs = 1

NextList == ListUnits

SpecList == InitList /\ [][NextList]_vars

\* ================================================================ claims
SetMax(S) == CHOOSE m \in S : \A x \in S : x <= m

\* the prior state's units_last_ts, the epoch when absent
PriorUnitsTs == IF prior.units_last_ts = NoneVal THEN Epoch ELSE prior.units_last_ts

\* the created_at stamps present in the batch fetched by sync_units
FetchedCreatedAt == {all_units[i].created_at : i \in 1..Len(all_units)} \ {NoneVal}

\* the unit_ids of the listing update iterates
ListedUnits == {units[i].unit_id : i \in 1..Len(units)}

\* the stamps update is meant to take from the attempts fetched for u
FetchedAttemptTs(u) ==
    {PyOr(fetched[u][j].finished_at, fetched[u][j].updated_at) : j \in 1..Len(fetched[u])}
        \ {NoneVal}

UpsertsTo(table) == {k \in 1..Len(ops) : ops[k].type = "upsert" /\ ops[k].table = table}

FailedReqs == {k \in 1..Len(reqs) : ~reqs[k].ok}

\* C1: a checkpoint whose attempts_last_ts[u] differs from the prior state's
\* value comes after a unit_attempts upsert holding all attempts fetched for u
\* and after sync_unit_question_attempts has run for each of them.
C1_WatermarkAfterEmission ==
    \A k \in 1..Len(ops) : ops[k].type = "checkpoint" =>
        \A u \in UnitIds :
            ops[k].state.attempts_last_ts[u] /= prior.attempts_last_ts[u] =>
                /\ \E j \in UpsertsTo("unit_attempts") : j < k /\ ops[j].data = fetched[u]
                /\ \A a \in 1..Len(fetched[u]) :
                      \E c \in 1..Len(qa_calls) :
                          qa_calls[c] = [unit_id |-> u, attempt |-> fetched[u][a]]

\* C2: after a completed run, every listed unit whose attempts fetch was not
\* empty has as checkpointed watermark the largest finished_at (else
\* updated_at) of the fetched attempts, or the prior watermark if larger.
C2_AttemptsWatermarkIsMax ==
    pc = "done" =>
        \A u \in ListedUnits : fetched[u] /= <<>> =>
            persisted.attempts_last_ts[u] =
                SetMax(FetchedAttemptTs(u)
                       \cup {IF prior.attempts_last_ts[u] = NoneVal
                             THEN Epoch ELSE prior.attempts_last_ts[u]})

\* C3: in a completed run sync_unit_question_attempts has run exactly once
\* for every attempt fetched for every listed unit.
C3_QuestionAttemptsOncePerAttempt ==
    pc = "done" =>
        \A u \in ListedUnits : \A a \in 1..Len(fetched[u]) :
            Cardinality({c \in 1..Len(qa_calls) :
                            qa_calls[c] = [unit_id |-> u, attempt |-> fetched[u][a]]}) = 1

\* C4: the operations of a completed run hold one unit_attempts upsert per
\* listed unit with a non-empty fetch, carrying that unit's fetched attempts,
\* and none for the others.
C4_OneAttemptsUpsertPerUnit ==
    pc = "done" =>
        /\ Cardinality(UpsertsTo("unit_attempts"))
              = Cardinality({u \in ListedUnits : fetched[u] /= <<>>})
        /\ \A u \in ListedUnits : fetched[u] /= <<>> =>
              \E j \in UpsertsTo("unit_attempts") : ops[j].data = fetched[u]

\* C5: when the paging loop has returned, its result is the upstream's items
\* in order, and it has issued exactly one successful request per page, at
\* offsets 0, limit, 2*limit, ..., the last being the short or empty page.
C5_PaginationConcat ==
    pc = "pg_done" =>
        /\ all_results = srv_items
        /\ Len(reqs) = (Len(srv_items) \div pg_params.limit) + 1
        /\ \A k \in 1..Len(reqs) :
              /\ reqs[k].ok
              /\ reqs[k].req.limit = pg_params.limit
              /\ reqs[k].req.offset = (k - 1) * pg_params.limit
              /\ (k < Len(reqs)) = (Len(ServeItems(reqs[k].req)) = pg_params.limit)

C5_Witness ==
    /\ pc = "pg_done"
    /\ Len(reqs) >= 3
    /\ Len(all_results) = 2 * pg_params.limit

\* the units the upstream holds that match sync_units' filter in this run
MatchingUnits == ServeUnits(GetUnitsReq(Len(quizzes) + 1, 0, PyOr(prior.units_last_ts, Epoch)))

\* C6: sync_units needs at most N div limit + 1 listing requests for the N
\* matching units, and ends with all_units holding each of them once.
C6_UnitsSyncTerminates ==
    pc \in {"sync_units", "sync_units_end"} =>
        /\ Len(reqs) <= (Len(MatchingUnits) \div limit_cfg) + 1
        /\ pc = "sync_units_end" => all_units = MatchingUnits

\* C7: the units_last_ts of an emitted checkpoint is at least the prior
\* state's units_last_ts (the epoch when absent).
C7_UnitsWatermarkMonotone ==
    \A k \in 1..Len(ops) : ops[k].type = "checkpoint" =>
        ops[k].state.units_last_ts >= PriorUnitsTs

C7_Witness ==
    /\ pc = "done"
    /\ prior.units_last_ts >= 1
    /\ all_units = <<>>
    /\ units /= <<>>

\* C8 as claimed: after a completed run units_last_ts is unchanged iff no
\* units were fetched, and is otherwise the largest created_at of the batch.
C8_Original ==
    pc = "done" =>
        /\ (persisted.units_last_ts = PriorUnitsTs) = (all_units = <<>>)
        /\ all_units /= <<>> =>
              /\ FetchedCreatedAt /= {}
              /\ persisted.units_last_ts = SetMax(FetchedCreatedAt)

\* C8 amended: after a completed run units_last_ts is the largest of the
\* prior watermark and the created_at stamps of the fetched batch; it is
\* unchanged iff no fetched unit has a created_at above the prior watermark.
C8_UnitsWatermarkIsMax ==
    pc = "done" =>
        /\ persisted.units_last_ts = SetMax(FetchedCreatedAt \cup {PriorUnitsTs})
        /\ (persisted.units_last_ts = PriorUnitsTs)
              = (\A c \in FetchedCreatedAt : c <= PriorUnitsTs)

C8_Witness ==
    /\ pc = "done"
    /\ Len(all_units) >= 2
    /\ persisted.units_last_ts > PriorUnitsTs
    /\ \E c \in FetchedCreatedAt : c < persisted.units_last_ts

\* C9: every value of a checkpointed attempts_last_ts is a timestamp, and a
\* key of the prior state is still present with a value at least its prior one.
C9_AttemptsWatermarkMonotone ==
    pc = "done" =>
        \A u \in UnitIds :
            /\ persisted.attempts_last_ts[u] /= NoneVal => IsTs(persisted.attempts_last_ts[u])
            /\ prior.attempts_last_ts[u] /= NoneVal =>
                  /\ IsTs(prior.attempts_last_ts[u])
                  /\ persisted.attempts_last_ts[u] >= prior.attempts_last_ts[u]

\* C10: a request answered with a non-200 status is the last request of its
\* run: the run is aborted, that step and every later step of the run yield
\* no operation and issue no request, and the run holds no checkpoint.
C10_AbortOnHttpFailure ==
    [][/\ FailedReqs' /= {} =>
            /\ FailedReqs' = {Len(reqs')}
            /\ pc' = "aborted"
            /\ \A k \in 1..Len(ops') : ops'[k].type /= "checkpoint"
            /\ FailedReqs = {} => ops' = ops /\ Len(reqs') = Len(reqs) + 1
       /\ (FailedReqs /= {} /\ runs' = runs) => (reqs' = reqs /\ ops' = ops)]_vars

C10_Witness ==
    /\ pc = "aborted"
    /\ FailedReqs /= {}
    /\ Len(reqs) >= 4
    /\ ops /= <<>>

\* the successful requests of one endpoint for unit u, in the order issued
ReqsFor(ep, u) ==
    SelectSeq(reqs, LAMBDA r : r.ok /\ r.req.ep = ep /\ r.req.unit_id = u)

\* sync_unit_question_attempts has run for every attempt fetched for u
QuestionAttemptsRan(u) ==
    \A a \in 1..Len(fetched[u]) :
        \E c \in 1..Len(qa_calls) : qa_calls[c] = [unit_id |-> u, attempt |-> fetched[u][a]]

\* C11: a checkpoint operation is the last operation of a completed run and
\* the only one; when it is emitted every listed unit has had its detail
\* fetched, its attempts fetched and sync_unit_question_attempts run for
\* each of its attempts.
C11_SingleFinalCheckpoint ==
    /\ \A k \in 1..Len(ops) : ops[k].type = "checkpoint" => k = Len(ops) /\ pc = "done"
    /\ pc = "done" =>
          /\ ops /= <<>> /\ ops[Len(ops)].type = "checkpoint"
          /\ \A u \in ListedUnits :
                /\ ReqsFor("unit_detail", u) /= <<>>
                /\ ReqsFor("user_progress", u) /= <<>>
                /\ QuestionAttemptsRan(u)

\* C12: a step of sync_unit_question_attempts for an attempt or unit that
\* lacks user_id, attempt_num or unit_id issues no request, emits no
\* operation and does not abort.
C12_SkipOnMissingParams ==
    [][(/\ pc = "question_attempts"
        /\ qa_pending /= <<>>
        /\ \/ Head(qa_pending).user_id = NoneVal
           \/ Head(qa_pending).attempt_num = NoneVal
           \/ units[idx].unit_id = NoneVal)
       => (reqs' = reqs /\ ops' = ops /\ pc' = "question_attempts")]_vars

C12_Witness ==
    /\ pc = "question_attempts"
    /\ Len(qa_calls) = 2
    /\ qa_calls[1].attempt.user_id /= NoneVal /\ qa_calls[1].attempt.attempt_num = 1
    /\ qa_calls[1].unit_id /= NoneVal
    /\ qa_calls[2].attempt.attempt_num = NoneVal
    /\ Len(reqs) = 1

\* the last element of every non-empty list of a response map, in key order
ExpectedLast(responses_obj) ==
    LET nonempty == SelectSeq(responses_obj, LAMBDA l : l /= <<>>)
    IN [i \in 1..Len(nonempty) |-> nonempty[i][Len(nonempty[i])]]

\* C13: a successful user-responses request is followed by exactly one
\* unit_question_attempts upsert holding the last element of every
\* non-empty list of the response map, or by no operation when every list
\* is empty.
C13_LastResponseOnly ==
    [][(/\ Len(reqs') = Len(reqs) + 1
        /\ reqs'[Len(reqs')].ok
        /\ reqs'[Len(reqs')].req.ep = "user_responses")
       => ops' = IF ExpectedLast(srv_items') /= <<>>
                 THEN Append(ops, Upsert("unit_question_attempts", ExpectedLast(srv_items')))
                 ELSE ops]_vars

C13_Witness ==
    /\ pc = "question_attempts"
    /\ Len(reqs) = 1 /\ reqs[1].ok
    /\ Len(srv_items) = 2
    /\ srv_items[1] = <<>>
    /\ Len(srv_items[2]) = 2 /\ srv_items[2][1] /= srv_items[2][2]
    /\ Len(ops) = 1 /\ ops[1].data = <<srv_items[2][2]>>

\* a completed run whose filtered units fetch and attempts fetches were empty
EmptyRun ==
    /\ pc = "done"
    /\ all_units = <<>>
    /\ \A u \in ListedUnits : fetched[u] = <<>>

\* C14 as claimed: such a run checkpoints the units_last_ts and the
\* attempts_last_ts map of the prior state.
C14_Original ==
    EmptyRun => /\ persisted.units_last_ts = prior.units_last_ts
                /\ persisted.attempts_last_ts = prior.attempts_last_ts

\* C14 amended: such a run checkpoints the prior state with its absent keys
\* read as their defaults: units_last_ts the epoch, attempts_last_ts empty.
C14_EmptyRunKeepsState ==
    EmptyRun => /\ persisted.units_last_ts = PriorUnitsTs
                /\ persisted.attempts_last_ts = prior.attempts_last_ts

C14_Witness ==
    /\ EmptyRun
    /\ units /= <<>>
    /\ prior.units_last_ts >= 1
    /\ \E u \in ListedUnits : prior.attempts_last_ts[u] /= NoneVal

\* C15: once update has listed the units, every unit the upstream holds is in
\* the listing it iterates, and a completed run has fetched the detail and
\* the attempts of each of them.
C15_EveryUpstreamUnitSynced ==
    /\ pc \in {"unit_questions", "unit_attempts", "paging", "pg_done", "question_attempts",
               "checkpoint", "done"} =>
          \A i \in 1..Len(quizzes) :
              \E j \in 1..Len(units) : units[j].unit_id = quizzes[i].unit_id
    /\ pc = "done" =>
          \A i \in 1..Len(quizzes) :
              /\ ReqsFor("unit_detail", quizzes[i].unit_id) /= <<>>
              /\ ReqsFor("user_progress", quizzes[i].unit_id) /= <<>>

\* the place of an endpoint in the processing of one unit
EpRank(ep) == CASE ep = "unit_detail" -> 1 [] ep = "user_progress" -> 2 [] OTHER -> 3

\* C16: the units upsert is the first operation; the requests about units
\* come after the listing requests, unit by unit in listing order (unit i of
\* the listing has unit_id i), for each unit the detail, then the attempts
\* pages, then the question-attempt requests; and when a unit is done the
\* question-attempt requests issued for it are those of its fetched attempts
\* in the order fetched.
C16_SequentialByUnit ==
    /\ \A k \in 1..Len(ops) : (ops[k].type = "upsert" /\ ops[k].table = "units") => k = 1
    /\ \A j, k \in 1..Len(reqs) : (j < k /\ reqs[j].req.unit_id /= NoneVal) =>
          /\ reqs[k].req.unit_id /= NoneVal
          /\ reqs[j].req.unit_id <= reqs[k].req.unit_id
          /\ reqs[j].req.unit_id = reqs[k].req.unit_id =>
                EpRank(reqs[j].req.ep) <= EpRank(reqs[k].req.ep)
    /\ pc \in {"checkpoint", "done"} =>
          \A u \in ListedUnits :
              LET rs == ReqsFor("user_responses", u)
              IN /\ Len(rs) = Len(fetched[u])
                 /\ \A i \in 1..Len(rs) : rs[i].req.attempt_num = fetched[u][i].attempt_num

\* C17: against an upstream whose 200 bodies lack a key or hold an object for
\* a list, a run aborts only on a failed request, and the call that got such
\* a body produces no record.
C17_ShapeMismatchAbsorbed ==
    srv_malformed /= "none" =>
        /\ pc = "aborted" => FailedReqs /= {}
        /\ srv_malformed \in {"progress_missing", "progress_object"} =>
              all_results = <<>> /\ \A u \in UnitIds : fetched[u] = <<>>
        /\ srv_malformed = "units_missing" => all_units = <<>> /\ units = <<>>
        /\ srv_malformed = "detail_object" => UpsertsTo("unit_questions") = {}

\* C18: during and after a run the state object the host passed in holds
\* what it held when the run started, and the watermark sync_unit_attempts
\* sends for a unit is the one of the start of the run.
C18_PriorStateUntouched ==
    /\ pc /= "idle" => /\ state.units_last_ts = prior.units_last_ts
                       /\ state.attempts_last_ts = prior.attempts_last_ts
    /\ pc = "paging" =>
          pg_params.updated_after = PyOr(prior.attempts_last_ts[pg_params.unit_id], Epoch)

====
